---- MODULE Spec2Model ----
(***************************************************************************)
(* A model of the Yotei weighted task scheduler (scheduler.go, the task    *)
(* and task-list files and the action file).                               *)
(*                                                                         *)
(* The scheduler's fields are the variables tasks, ctx, wg and mutex; the  *)
(* atomic fields of every task are the functions locked, weight, duration  *)
(* and concurrent.  Every goroutine (an external caller, a worker loop, a  *)
(* handler goroutine started for a duration-bound task, the goroutine      *)
(* started by Retry) is an entry of procs with its position (pc) and its   *)
(* locals.  sync.Mutex is modelled explicitly: Lock is an action enabled   *)
(* only while the mutex is free, TryLock never waits.                      *)
(***************************************************************************)
EXTENDS Integers, Sequences, FiniteSets, TLC

VARIABLES
    tasks,      \* Scheduler.tasks, the pool (a sequence of task references)
    ctx,        \* Scheduler.ctx / Scheduler.cancel: "nil", "live", "cancelled"
    wg,         \* Scheduler.wg, the WaitGroup counter
    mutex,      \* Scheduler.mutex: Free or the goroutine holding it
    locked,     \* Task.locked of every task
    weight,     \* Task.weight of every task
    duration,   \* Task.duration of every task (0 = DurationUnlimited)
    concurrent, \* Task.concurrent of every task
    handler,    \* Task.handler: the Actions an invocation may return
    procs,      \* every goroutine: pc and locals
    calls,      \* the call log the TestSequence handlers append to
    crashed     \* a panic has unwound a goroutine: the process is gone

vars == <<tasks, ctx, wg, mutex, locked, weight, duration, concurrent,
          handler, procs, calls, crashed>>

----------------------------------------------------------------------------
(* Bounds *)

\* Scheduler.workers, the argument of NewScheduler
Workers == 2
\* external goroutines that call the scheduler's exported methods
NumCallers == 2
\* longest pool and longest argument list explored
MaxPool == 2
\* handler goroutines of duration-bound tasks alive at once
MaxDetached == 2
\* Retry goroutines alive at once
MaxSleepers == 2
\* largest task weight drawn
MaxWeight == 2
\* longest pool and longest argument list drawn for a single call
MaxLen == 3

\* DurationUnlimited
DurationUnlimited == 0

Tasks == {"A", "B", "C"}
None == "none"
Free == <<"free", 0>>

Callers  == {<<"caller", i>> : i \in 1..NumCallers}
Loops    == {<<"worker", i>> : i \in 1..(NumCallers * Workers)}
Handlers == {<<"handle", i>> : i \in 1..MaxDetached}
Sleepers == {<<"retry", i>> : i \in 1..MaxSleepers}
Procs    == Callers \cup Loops \cup Handlers \cup Sleepers

\* a goroutine that does not exist (a free slot)
Off == [pc |-> "off", task |-> None, args |-> <<>>, todo |-> <<>>, pick |-> 0]

RECURSIVE SeqsUpTo(_, _)
SeqsUpTo(S, n) ==
    IF n = 0 THEN {<<>>}
    ELSE LET shorter == SeqsUpTo(S, n - 1)
         IN  shorter \cup {Append(s, x) : s \in {q \in shorter : Len(q) = n - 1}, x \in S}

Range(s) == {s[i] : i \in 1..Len(s)}

Count(s, x) == Cardinality({i \in 1..Len(s) : s[i] = x})

----------------------------------------------------------------------------
(* Task lists: Tasks.Weight, Tasks.Unlocked *)

RECURSIVE TasksWeight(_, _)
TasksWeight(ts, w) ==
    IF ts = <<>> THEN 0 ELSE w[Head(ts)] + TasksWeight(Tail(ts), w)

\* Unlocked without the IsLocked test
UnlockedIgnoringLocks(ts, lk) == ts

RECURSIVE Unlocked(_, _)
Unlocked(ts, lk) ==
    IF ts = <<>> THEN <<>>
    ELSE IF ~lk[Head(ts)] THEN <<Head(ts)>> \o Unlocked(Tail(ts), lk)
         ELSE Unlocked(Tail(ts), lk)

----------------------------------------------------------------------------
(* Scheduler.Add: the inner loop's continue only continues the inner loop, *)
(* so every argument is appended.                                          *)

RECURSIVE AddTasks(_, _)
AddTasks(pool, args) ==
    IF args = <<>> THEN pool
    ELSE AddTasks(Append(pool, Head(args)), Tail(args))

(* Scheduler.Remove.  The range statement evaluates scheduler.tasks once:  *)
(* it runs over the original length n and reads element i from the backing *)
(* array arr, which the appends inside the loop shift in place.  len is    *)
(* the length of scheduler.tasks now; t is the range variable.  The slice  *)
(* expression scheduler.tasks[i+1:] panics when i+1 > len.                 *)

ShiftLeft(arr, i, len) ==
    [k \in 1..Len(arr) |-> IF k >= i /\ k < len THEN arr[k + 1] ELSE arr[k]]

RECURSIVE RemoveLoop(_, _, _, _, _, _)
RemoveLoop(arr, len, args, i, j, t) ==
    IF i > Len(arr) THEN [tasks |-> SubSeq(arr, 1, len), panic |-> FALSE]
    ELSE IF j > Len(args)
         THEN IF i + 1 > Len(arr)
              THEN [tasks |-> SubSeq(arr, 1, len), panic |-> FALSE]
              ELSE RemoveLoop(arr, len, args, i + 1, 1, arr[i + 1])
    ELSE IF t = args[j]
         THEN IF i > len
              THEN [tasks |-> SubSeq(arr, 1, len), panic |-> TRUE]
              ELSE RemoveLoop(ShiftLeft(arr, i, len), len - 1, args, i, j + 1, t)
    ELSE RemoveLoop(arr, len, args, i, j + 1, t)

RemoveTasks(pool, args) ==
    IF pool = <<>> THEN [tasks |-> pool, panic |-> FALSE]
    ELSE RemoveLoop(pool, Len(pool), args, 1, 1, pool[1])

----------------------------------------------------------------------------
(* Scheduler.next: the walk over the unlocked tasks.  Returns the index in *)
(* ts of the task selected for pick, 0 when the loop ends without one.     *)

\* the walk with pick <= current for pick < current
RECURSIVE NextWalkInclusive(_, _, _, _, _)
NextWalkInclusive(ts, w, pick, i, current) ==
    IF i > Len(ts) THEN 0
    ELSE LET c == current + w[ts[i]]
         IN  IF pick <= c THEN i ELSE NextWalkInclusive(ts, w, pick, i + 1, c)

RECURSIVE NextWalk(_, _, _, _, _)
NextWalk(ts, w, pick, i, current) ==
    IF i > Len(ts) THEN 0
    ELSE LET c == current + w[ts[i]]
         IN  IF pick < c THEN i ELSE NextWalk(ts, w, pick, i + 1, c)

NextIndex(ts, w, pick) == NextWalk(ts, w, pick, 1, 0)

----------------------------------------------------------------------------
(* Actions (the type Action): the pool effects a handler's result applies, *)
(* in the order the closures run them.                                     *)

Effect(op, args) == [op |-> op, args |-> args]

Continue == <<>>
\* Done that leaves the task in the pool
DoneKeepsTask(t) == <<>>
Done(t) == <<Effect("Remove", <<t>>)>>
Retry(t) == <<Effect("Retry", <<t>>)>>
Then(action, callback) == action \o callback
ThenAdd(action, ts) == Then(action, <<Effect("Add", ts)>>)

\* the combinators of the other Action file: Remove, Continue and Add run
\* their own call first and the receiver after it (t is the handled task)
ActionRemove(action, t) == <<Effect("Remove", <<t>>)>> \o action
ActionContinue(action) == action
ActionAdd(action, ts) == <<Effect("Add", ts)>> \o action

\* a composition: combinator comb chained onto the receiver recv with the
\* argument arg (the callback of Then, the tasks of ThenAdd and Add)
Composition(comb, recv, arg) == [comb |-> comb, recv |-> recv, arg |-> arg]

\* the Action that the composition c evaluates to in the handler of task t
Compose(c, t) ==
    CASE c.comb = "Then"     -> Then(c.recv, c.arg)
      [] c.comb = "ThenAdd"  -> ThenAdd(c.recv, c.arg)
      [] c.comb = "Add"      -> ActionAdd(c.recv, c.arg)
      [] c.comb = "Remove"   -> ActionRemove(c.recv, t)
      [] c.comb = "Continue" -> ActionContinue(c.recv)

\* what a handler that may return anything returns for task t
AnyAction(t) ==
    {Continue, Done(t), Retry(t)} \cup {ThenAdd(Done(t), <<u>>) : u \in Tasks \ {t}}

\* the three handlers of TestSequence
SequenceHandler(t) ==
    CASE t = "A" -> [acts |-> {ThenAdd(Done("A"), <<"B">>)}, logs |-> TRUE]
      [] t = "B" -> [acts |-> {ThenAdd(Done("B"), <<"C">>)}, logs |-> TRUE]
      [] OTHER   -> [acts |-> {Done(t)}, logs |-> TRUE]

----------------------------------------------------------------------------
(* Goroutines *)

Kind(p) == p[1]

\* a caller between two calls; the noop positions record an early return
IdlePcs == {"idle", "Start.noop", "Stop.noop"}

Idle == [Off EXCEPT !.pc = "idle"]

FreeSlots(S) == {p \in S : procs[p].pc = "off"}

RECURSIVE Lowest(_, _)
Lowest(S, n) ==
    IF n = 0 \/ S = {} THEN {}
    ELSE LET m == CHOOSE p \in S : \A q \in S : p[2] <= q[2]
         IN  {m} \cup Lowest(S \ {m}, n - 1)

\* the goroutines whose Retry goroutine is still to be started or running
RetriesPending ==
    Cardinality({p \in Sleepers : procs[p].pc # "off"})
    + Cardinality({p \in Procs : \E k \in 1..Len(procs[p].todo) : procs[p].todo[k].op = "Retry"})
    + Cardinality({p \in Procs : procs[p].pc = "Retry"})

\* where a goroutine goes once the effect it ran has returned
AfterEffect(p, rec) ==
    IF rec.todo # <<>> THEN [rec EXCEPT !.pc = "action", !.args = <<>>]
    ELSE CASE Kind(p) = "caller" -> Idle
           [] Kind(p) = "worker" -> [rec EXCEPT !.pc = "defer", !.args = <<>>]
           [] OTHER -> Off

\* NewScheduler: not running, no worker loop, the mutex free
NewScheduler ==
    /\ ctx = "nil"
    /\ wg = 0
    /\ mutex = Free
    /\ procs = [p \in Procs |-> IF Kind(p) = "caller" THEN Idle ELSE Off]
    /\ calls = <<>>
    /\ crashed = FALSE

\* NewTask: unlocked; the fluent setters then fix weight, duration, concurrent
NewTask(w, d, c, h) ==
    /\ locked = [t \in Tasks |-> FALSE]
    /\ weight = w
    /\ duration = d
    /\ concurrent = c
    /\ handler = h

SetProc(p, rec) == procs' = [procs EXCEPT ![p] = rec]

taskVars == <<weight, duration, concurrent, handler>>

----------------------------------------------------------------------------
(* sync.Mutex.Lock at the head of Add and Remove: the goroutine whose next *)
(* effect is e waits for the mutex and takes it.                           *)

Lock(p) ==
    /\ ~crashed
    /\ procs[p].pc = "action"
    /\ procs[p].todo # <<>>
    /\ mutex = Free
    /\ LET e == Head(procs[p].todo)
       IN  /\ e.op = "Add" => Len(tasks) + Len(e.args) <= MaxPool
           /\ SetProc(p, [procs[p] EXCEPT !.pc = e.op, !.args = e.args,
                                          !.todo = Tail(procs[p].todo)])
    /\ mutex' = p
    /\ UNCHANGED <<tasks, ctx, wg, locked, taskVars, calls, crashed>>

\* Scheduler.Add, from the Lock to the deferred Unlock
Add(p) ==
    /\ ~crashed
    /\ procs[p].pc = "Add"
    /\ mutex = p
    /\ tasks' = AddTasks(tasks, procs[p].args)
    /\ mutex' = Free
    /\ SetProc(p, AfterEffect(p, procs[p]))
    /\ UNCHANGED <<ctx, wg, locked, taskVars, calls, crashed>>

\* Scheduler.Remove, from the Lock to the deferred Unlock; a panic unwinds
\* the goroutine and ends the process
Remove(p) ==
    /\ ~crashed
    /\ procs[p].pc = "Remove"
    /\ mutex = p
    /\ LET r == RemoveTasks(tasks, procs[p].args)
       IN  /\ tasks' = r.tasks
           /\ crashed' = r.panic
           /\ SetProc(p, IF r.panic THEN [procs[p] EXCEPT !.pc = "panic"]
                         ELSE AfterEffect(p, procs[p]))
    /\ mutex' = Free
    /\ UNCHANGED <<ctx, wg, locked, taskVars, calls>>

\* the closure Retry returns: Remove(task), then go func() { Sleep; Add(task) }
RetryAction(p) ==
    /\ ~crashed
    /\ procs[p].pc = "Retry"
    /\ mutex = p
    /\ LET r == RemoveTasks(tasks, procs[p].args)
           s == Lowest(FreeSlots(Sleepers), 1)
       IN  /\ tasks' = r.tasks
           /\ crashed' = r.panic
           /\ ~r.panic => s # {}
           /\ procs' = [q \in Procs |->
                 IF q = p THEN (IF r.panic THEN [procs[p] EXCEPT !.pc = "panic"]
                                ELSE AfterEffect(p, procs[p]))
                 ELSE IF ~r.panic /\ q \in s
                      THEN [Off EXCEPT !.pc = "action", !.task = procs[p].args[1],
                                       !.todo = <<Effect("Add", procs[p].args)>>]
                 ELSE procs[q]]
    /\ mutex' = Free
    /\ UNCHANGED <<ctx, wg, locked, taskVars, calls>>

----------------------------------------------------------------------------
(* External callers *)

\* a caller calls Add(args...): scheduler.mutex.Lock()
CallAdd(c, args) ==
    /\ ~crashed
    /\ procs[c].pc \in IdlePcs
    /\ mutex = Free
    /\ Len(tasks) + Len(args) <= MaxPool
    /\ mutex' = c
    /\ SetProc(c, [Idle EXCEPT !.pc = "Add", !.args = args])
    /\ UNCHANGED <<tasks, ctx, wg, locked, taskVars, calls, crashed>>

\* a caller calls Remove(args...): scheduler.mutex.Lock()
CallRemove(c, args) ==
    /\ ~crashed
    /\ procs[c].pc \in IdlePcs
    /\ mutex = Free
    /\ mutex' = c
    /\ SetProc(c, [Idle EXCEPT !.pc = "Remove", !.args = args])
    /\ UNCHANGED <<tasks, ctx, wg, locked, taskVars, calls, crashed>>

\* a caller calls task.Concurrent(value): one atomic store
Concurrent(c, t, value) ==
    /\ ~crashed
    /\ procs[c].pc \in IdlePcs
    /\ concurrent[t] # value
    /\ concurrent' = [concurrent EXCEPT ![t] = value]
    /\ UNCHANGED <<tasks, ctx, wg, mutex, locked, weight, duration, handler,
                   procs, calls, crashed>>

\* slices.Clone: a new slice with the same elements in the same order
Clone(ts) == [i \in 1..Len(ts) |-> ts[i]]

\* a caller between two calls that keeps the result of its last call
ResultPcs == IdlePcs \cup {"Snapshot.held", "Has.true", "Has.false"}

\* a caller calls Has(t): scheduler.mutex.Lock()
HasLock(c, t) ==
    /\ ~crashed
    /\ procs[c].pc \in ResultPcs
    /\ mutex = Free
    /\ mutex' = c
    /\ SetProc(c, [Idle EXCEPT !.pc = "Has", !.args = <<t>>])
    /\ UNCHANGED <<tasks, ctx, wg, locked, taskVars, calls, crashed>>

\* Scheduler.Has, from the loop over the pool to the deferred Unlock
Has(c) ==
    /\ ~crashed
    /\ procs[c].pc = "Has"
    /\ mutex = c
    /\ SetProc(c, [Idle EXCEPT !.pc = IF procs[c].args[1] \in Range(tasks)
                                      THEN "Has.true" ELSE "Has.false"])
    /\ mutex' = Free
    /\ UNCHANGED <<tasks, ctx, wg, locked, taskVars, calls, crashed>>

\* a caller calls Snapshot(): scheduler.mutex.Lock()
SnapshotLock(c) ==
    /\ ~crashed
    /\ procs[c].pc \in ResultPcs
    /\ mutex = Free
    /\ mutex' = c
    /\ SetProc(c, [Idle EXCEPT !.pc = "Snapshot"])
    /\ UNCHANGED <<tasks, ctx, wg, locked, taskVars, calls, crashed>>

\* Snapshot that yields only the unlocked tasks
SnapshotOfUnlocked(c) ==
    /\ ~crashed
    /\ procs[c].pc = "Snapshot"
    /\ mutex = c
    /\ SetProc(c, [Idle EXCEPT !.pc = "Snapshot.held", !.args = Unlocked(tasks, locked)])
    /\ mutex' = Free
    /\ UNCHANGED <<tasks, ctx, wg, locked, taskVars, calls, crashed>>

\* Scheduler.Snapshot, from slices.Clone to the deferred Unlock: the caller
\* keeps the iterator over the clone (args) until its next call
Snapshot(c) ==
    /\ ~crashed
    /\ procs[c].pc = "Snapshot"
    /\ mutex = c
    /\ SetProc(c, [Idle EXCEPT !.pc = "Snapshot.held", !.args = Clone(tasks)])
    /\ mutex' = Free
    /\ UNCHANGED <<tasks, ctx, wg, locked, taskVars, calls, crashed>>

\* Scheduler.IsRunning: Lock, read ctx, Unlock
IsRunning == ctx # "nil"

\* Scheduler.String: scheduler.mutex.Lock() at its head and, with that lock
\* still held, the Lock inside the IsRunning() call among Sprintf's
\* arguments (sync.Mutex is not reentrant); once IsRunning has returned,
\* Sprintf and the deferred Unlock end the call
StringLock(c) ==
    /\ ~crashed
    /\ mutex = Free
    /\ IF procs[c].pc \in ResultPcs
       THEN /\ mutex' = c
            /\ SetProc(c, [Idle EXCEPT !.pc = "String.IsRunning"])
       ELSE /\ procs[c].pc = "String.IsRunning"
            /\ mutex' = Free
            /\ SetProc(c, Idle)
    /\ UNCHANGED <<tasks, ctx, wg, locked, taskVars, calls, crashed>>

\* Start without the early return
StartWithoutCheck(c) ==
    /\ ~crashed
    /\ procs[c].pc \in IdlePcs
    /\ mutex = Free
    /\ SetProc(c, [Idle EXCEPT !.pc = "Start.Lock"])
    /\ UNCHANGED <<tasks, ctx, wg, mutex, locked, taskVars, calls, crashed>>

\* a caller calls Start: the IsRunning check and its early return
StartIsRunning(c) ==
    /\ ~crashed
    /\ procs[c].pc \in IdlePcs
    /\ mutex = Free
    /\ SetProc(c, [Idle EXCEPT !.pc = IF IsRunning THEN "Start.noop" ELSE "Start.Lock"])
    /\ UNCHANGED <<tasks, ctx, wg, mutex, locked, taskVars, calls, crashed>>

\* Start, scheduler.mutex.Lock()
StartLock(c) ==
    /\ ~crashed
    /\ procs[c].pc = "Start.Lock"
    /\ mutex = Free
    /\ mutex' = c
    /\ SetProc(c, [Idle EXCEPT !.pc = "Start.spawn"])
    /\ UNCHANGED <<tasks, ctx, wg, locked, taskVars, calls, crashed>>

\* Start spawning its workers also when the pool is empty
StartSpawnAlways(c) ==
    /\ ~crashed
    /\ procs[c].pc = "Start.spawn"
    /\ mutex = c
    /\ ctx' = "live"
    /\ LET new == Lowest(FreeSlots(Loops), Workers)
       IN  /\ Cardinality(new) = Workers
           /\ wg' = wg + Cardinality(new)
           /\ procs' = [q \in Procs |->
                 IF q = c THEN Idle
                 ELSE IF q \in new THEN [Off EXCEPT !.pc = "loop"]
                 ELSE procs[q]]
    /\ mutex' = Free
    /\ UNCHANGED <<tasks, locked, taskVars, calls, crashed>>

\* Start, from context.WithCancel to the deferred Unlock
StartSpawn(c) ==
    /\ ~crashed
    /\ procs[c].pc = "Start.spawn"
    /\ mutex = c
    /\ ctx' = "live"
    /\ LET new == IF Len(tasks) = 0 THEN {} ELSE Lowest(FreeSlots(Loops), Workers)
       IN  /\ Len(tasks) # 0 => Cardinality(new) = Workers
           /\ wg' = wg + Cardinality(new)
           /\ procs' = [q \in Procs |->
                 IF q = c THEN Idle
                 ELSE IF q \in new THEN [Off EXCEPT !.pc = "loop"]
                 ELSE procs[q]]
    /\ mutex' = Free
    /\ UNCHANGED <<tasks, locked, taskVars, calls, crashed>>

\* a caller calls Stop: the IsRunning check and its early return
StopIsRunning(c) ==
    /\ ~crashed
    /\ procs[c].pc \in IdlePcs
    /\ mutex = Free
    /\ SetProc(c, [Idle EXCEPT !.pc = IF IsRunning THEN "Stop.Lock" ELSE "Stop.noop"])
    /\ UNCHANGED <<tasks, ctx, wg, mutex, locked, taskVars, calls, crashed>>

\* Stop that cancels without holding the pool lock
StopCancelUnlocked(c) ==
    /\ ~crashed
    /\ procs[c].pc = "Stop.Lock"
    /\ ctx # "nil"
    /\ ctx' = "cancelled"
    /\ SetProc(c, [Idle EXCEPT !.pc = "Stop.Wait"])
    /\ UNCHANGED <<tasks, wg, mutex, locked, taskVars, calls, crashed>>

\* Stop, scheduler.mutex.Lock() and scheduler.cancel(); calling the nil
\* cancel of a stopped scheduler panics
StopCancel(c) ==
    /\ ~crashed
    /\ procs[c].pc = "Stop.Lock"
    /\ mutex = Free
    /\ IF ctx = "nil"
       THEN /\ crashed' = TRUE
            /\ SetProc(c, [Idle EXCEPT !.pc = "panic"])
            /\ UNCHANGED <<mutex, ctx>>
       ELSE /\ mutex' = c
            /\ ctx' = "cancelled"
            /\ SetProc(c, [Idle EXCEPT !.pc = "Stop.Wait"])
            /\ UNCHANGED crashed
    /\ UNCHANGED <<tasks, wg, locked, taskVars, calls>>

\* Stop that does not clear the pool
StopWaitKeepingTasks(c) ==
    /\ ~crashed
    /\ procs[c].pc = "Stop.Wait"
    /\ mutex = c
    /\ wg = 0
    /\ ctx' = "nil"
    /\ mutex' = Free
    /\ SetProc(c, Idle)
    /\ UNCHANGED <<tasks, wg, locked, taskVars, calls, crashed>>

\* Stop, from the return of scheduler.wg.Wait() to the deferred Unlock
StopWait(c) ==
    /\ ~crashed
    /\ procs[c].pc = "Stop.Wait"
    /\ mutex = c
    /\ wg = 0
    /\ tasks' = <<>>
    /\ ctx' = "nil"
    /\ mutex' = Free
    /\ SetProc(c, Idle)
    /\ UNCHANGED <<wg, locked, taskVars, calls, crashed>>

----------------------------------------------------------------------------
(* Worker loops *)

\* Scheduler.worker, the select: return on ctx.Done(), else call next
WorkerSelect(w) ==
    /\ ~crashed
    /\ procs[w].pc = "loop"
    /\ IF ctx = "cancelled"
       THEN /\ wg' = wg - 1
            /\ SetProc(w, Off)
       ELSE /\ SetProc(w, [procs[w] EXCEPT !.pc = "next"])
            /\ UNCHANGED wg
    /\ UNCHANGED <<tasks, ctx, mutex, locked, taskVars, calls, crashed>>

\* next taking the pool lock with Lock: it waits while the lock is held
NextLock(w) ==
    /\ ~crashed
    /\ procs[w].pc = "next"
    /\ mutex = Free
    /\ mutex' = w
    /\ SetProc(w, [procs[w] EXCEPT !.pc = "select"])
    /\ UNCHANGED <<tasks, ctx, wg, locked, taskVars, calls, crashed>>

\* Scheduler.next, scheduler.mutex.TryLock(): nil at once when it is held
NextTryLock(w) ==
    /\ ~crashed
    /\ procs[w].pc = "next"
    /\ IF mutex = Free
       THEN /\ mutex' = w
            /\ SetProc(w, [procs[w] EXCEPT !.pc = "select"])
       ELSE /\ SetProc(w, [procs[w] EXCEPT !.pc = "loop"])
            /\ UNCHANGED mutex
    /\ UNCHANGED <<tasks, ctx, wg, locked, taskVars, calls, crashed>>

\* Scheduler.next, from tasks.Unlocked() to the deferred Unlock
NextSelect(w) ==
    /\ ~crashed
    /\ procs[w].pc = "select"
    /\ mutex = w
    /\ LET unlocked == Unlocked(tasks, locked)
           total == TasksWeight(unlocked, weight)
       IN  IF total = 0
           THEN /\ SetProc(w, [procs[w] EXCEPT !.pc = "loop"])
                /\ UNCHANGED locked
           ELSE \E pick \in 0..(total - 1) :
                  LET i == NextIndex(unlocked, weight, pick)
                  IN  IF i = 0
                      THEN /\ SetProc(w, [procs[w] EXCEPT !.pc = "loop"])
                           /\ UNCHANGED locked
                      ELSE /\ locked' = IF ~concurrent[unlocked[i]]
                                        THEN [locked EXCEPT ![unlocked[i]] = TRUE]
                                        ELSE locked
                           /\ SetProc(w, [procs[w] EXCEPT !.pc = "handleTasker",
                                             !.task = unlocked[i], !.pick = pick])
    /\ mutex' = Free
    /\ UNCHANGED <<tasks, ctx, wg, taskVars, calls, crashed>>

\* Scheduler.handleTasker, the branch on task.Duration(): a duration-bound
\* task gets its handler in a goroutine of its own and the worker waits
HandleTasker(w) ==
    /\ ~crashed
    /\ procs[w].pc = "handleTasker"
    /\ IF duration[procs[w].task] > DurationUnlimited
       THEN LET h == Lowest(FreeSlots(Handlers), 1)
            IN  /\ h # {}
                /\ procs' = [q \in Procs |->
                      IF q = w THEN [procs[w] EXCEPT !.pc = "wait", !.pick = 0]
                      ELSE IF q \in h THEN [Off EXCEPT !.pc = "handle", !.task = procs[w].task]
                      ELSE procs[q]]
       ELSE SetProc(w, [procs[w] EXCEPT !.pc = "handle", !.pick = 0])
    /\ UNCHANGED <<tasks, ctx, wg, mutex, locked, taskVars, calls, crashed>>

\* Scheduler.handle: task.Handle(ctx) runs and returns its Action
Handle(p) ==
    /\ ~crashed
    /\ procs[p].pc = "handle"
    /\ \E action \in handler[procs[p].task].acts :
         /\ (\E k \in 1..Len(action) : action[k].op = "Retry") => RetriesPending < MaxSleepers
         /\ SetProc(p, AfterEffect(p, [procs[p] EXCEPT !.todo = action]))
    /\ calls' = IF handler[procs[p].task].logs THEN Append(calls, procs[p].task) ELSE calls
    /\ UNCHANGED <<tasks, ctx, wg, mutex, locked, taskVars, crashed>>

\* context.WithTimeout(scheduler.ctx, duration): the duration elapses and the
\* timer ends the context of the waiting worker
Deadline(w) ==
    /\ ~crashed
    /\ procs[w].pc = "wait"
    /\ SetProc(w, [procs[w] EXCEPT !.pc = "timeout"])
    /\ UNCHANGED <<tasks, ctx, wg, mutex, locked, taskVars, calls, crashed>>

\* the wait that ends when the handler goroutine has returned
WaitDoneOnReturn(w) ==
    /\ ~crashed
    /\ procs[w].pc \in {"wait", "timeout"}
    /\ \A h \in Handlers : ~(procs[h].pc = "handle" /\ procs[h].task = procs[w].task)
    /\ SetProc(w, [procs[w] EXCEPT !.pc = "defer"])
    /\ UNCHANGED <<tasks, ctx, wg, mutex, locked, taskVars, calls, crashed>>

\* Scheduler.handleTasker, <-ctx.Done(): the worker goes on once the deadline
\* has passed or the scheduler's context is cancelled
WaitDone(w) ==
    /\ ~crashed
    /\ procs[w].pc \in {"wait", "timeout"}
    /\ procs[w].pc = "timeout" \/ ctx = "cancelled"
    /\ SetProc(w, [procs[w] EXCEPT !.pc = "defer"])
    /\ UNCHANGED <<tasks, ctx, wg, mutex, locked, taskVars, calls, crashed>>

\* Scheduler.handleTasker, the deferred function: Unlock unless concurrent
DeferUnlock(w) ==
    /\ ~crashed
    /\ procs[w].pc = "defer"
    /\ locked' = IF ~concurrent[procs[w].task]
                 THEN [locked EXCEPT ![procs[w].task] = FALSE]
                 ELSE locked
    /\ SetProc(w, [Off EXCEPT !.pc = "loop"])
    /\ UNCHANGED <<tasks, ctx, wg, mutex, taskVars, calls, crashed>>

----------------------------------------------------------------------------
(* The scheduler with one external caller *)

\* the tasks the caller registers, and the argument lists it passes
MainTasks == {"A", "B"}
ArgLists == {<<t>> : t \in MainTasks}

Main == <<"caller", 1>>

\* A sequential and unlimited, B sequential and duration-bound, C concurrent;
\* every handler may return Continue, Done or Retry
Init ==
    /\ NewScheduler
    /\ tasks = <<>>
    /\ NewTask([t \in Tasks |-> IF t = "B" THEN 2 ELSE 1],
               [t \in Tasks |-> IF t = "B" THEN 1 ELSE DurationUnlimited],
               [t \in Tasks |-> t = "C"],
               [t \in Tasks |-> [acts |-> {Continue, Done(t), Retry(t)}, logs |-> FALSE]])

Next ==
    \/ \E args \in ArgLists : CallAdd(Main, args)
    \/ \E args \in ArgLists : CallRemove(Main, args)
    \/ StartIsRunning(Main)
    \/ StartLock(Main)
    \/ StartSpawn(Main)
    \/ StopIsRunning(Main)
    \/ StopCancel(Main)
    \/ StopWait(Main)
    \/ \E p \in Procs : Lock(p)
    \/ \E p \in Procs : Add(p)
    \/ \E p \in Procs : Remove(p)
    \/ \E p \in Procs : RetryAction(p)
    \/ \E w \in Loops : WorkerSelect(w)
    \/ \E w \in Loops : NextTryLock(w)
    \/ \E w \in Loops : NextSelect(w)
    \/ \E w \in Loops : HandleTasker(w)
    \/ \E p \in Loops \cup Handlers : Handle(p)
    \/ \E w \in Loops : Deadline(w)
    \/ \E w \in Loops : WaitDone(w)
    \/ \E w \in Loops : DeferUnlock(w)

Spec == Init /\ [][Next]_vars

----------------------------------------------------------------------------
(* Remove and Add called on every pool: the pool is any sequence of task   *)
(* references (Add appends whatever it is given, so every sequence is a    *)
(* pool some calls of Add build), the scheduler is not running.            *)

InitPool ==
    /\ NewScheduler
    /\ tasks \in SeqsUpTo(Tasks, MaxLen)
    /\ NewTask([t \in Tasks |-> 1],
               [t \in Tasks |-> DurationUnlimited],
               [t \in Tasks |-> FALSE],
               [t \in Tasks |-> [acts |-> {Continue}, logs |-> FALSE]])

NextPool ==
    \/ \E args \in SeqsUpTo(Tasks, MaxLen) : CallRemove(Main, args)
    \/ Remove(Main)
    \/ \E args \in SeqsUpTo(Tasks, MaxLen) : CallAdd(Main, args)
    \/ Add(Main)

SpecPool == InitPool /\ [][NextPool]_vars

----------------------------------------------------------------------------
(* Start, work and Stop with one sequential, unlimited-duration task whose *)
(* handler returns Continue or Done.  The Go scheduler runs every runnable *)
(* goroutine, and a goroutine blocked in Mutex.Lock gets the mutex (the    *)
(* mutex is handed to a starving waiter): weak fairness for every step,    *)
(* strong fairness for the steps that wait for the mutex.                  *)

InitStop ==
    /\ NewScheduler
    /\ tasks = <<"A">>
    /\ NewTask([t \in Tasks |-> 1],
               [t \in Tasks |-> DurationUnlimited],
               [t \in Tasks |-> FALSE],
               [t \in Tasks |-> [acts |-> {Continue, Done(t)}, logs |-> FALSE]])

NextStop ==
    \/ StartIsRunning(Main)
    \/ StartLock(Main)
    \/ StartSpawn(Main)
    \/ StopIsRunning(Main)
    \/ StopCancel(Main)
    \/ StopWait(Main)
    \/ \E w \in Loops : Lock(w)
    \/ \E w \in Loops : Remove(w)
    \/ \E w \in Loops : WorkerSelect(w)
    \/ \E w \in Loops : NextTryLock(w)
    \/ \E w \in Loops : NextSelect(w)
    \/ \E w \in Loops : HandleTasker(w)
    \/ \E w \in Loops : Handle(w)
    \/ \E w \in Loops : DeferUnlock(w)

FairStop ==
    /\ SF_vars(StopCancel(Main))
    /\ WF_vars(StopWait(Main))
    /\ \A w \in Loops :
         /\ SF_vars(Lock(w))
         /\ WF_vars(Remove(w))
         /\ WF_vars(WorkerSelect(w))
         /\ WF_vars(NextTryLock(w))
         /\ WF_vars(NextSelect(w))
         /\ WF_vars(HandleTasker(w))
         /\ WF_vars(Handle(w))
         /\ WF_vars(DeferUnlock(w))

SpecStop == InitStop /\ [][NextStop]_vars /\ FairStop

----------------------------------------------------------------------------
(* TestSequence: A, B and C are sequential with unlimited duration, their  *)
(* handlers log the call and return Done().ThenAdd(B), Done().ThenAdd(C)   *)
(* and Done(); only A is in the pool when Start is called.  Fairness as    *)
(* for SpecStop; the test calls Start first, Stop whenever it likes.       *)

InitSequence ==
    /\ NewScheduler
    /\ tasks = <<"A">>
    /\ NewTask([t \in Tasks |-> 1],
               [t \in Tasks |-> DurationUnlimited],
               [t \in Tasks |-> FALSE],
               [t \in Tasks |-> SequenceHandler(t)])

NextSequence ==
    \/ StartIsRunning(Main)
    \/ StartLock(Main)
    \/ StartSpawn(Main)
    \/ StopIsRunning(Main)
    \/ StopCancel(Main)
    \/ StopWait(Main)
    \/ \E w \in Loops : Lock(w)
    \/ \E w \in Loops : Add(w)
    \/ \E w \in Loops : Remove(w)
    \/ \E w \in Loops : WorkerSelect(w)
    \/ \E w \in Loops : NextTryLock(w)
    \/ \E w \in Loops : NextSelect(w)
    \/ \E w \in Loops : HandleTasker(w)
    \/ \E w \in Loops : Handle(w)
    \/ \E w \in Loops : DeferUnlock(w)

FairSequence ==
    /\ WF_vars(StartIsRunning(Main))
    /\ WF_vars(StartLock(Main))
    /\ WF_vars(StartSpawn(Main))
    /\ \A w \in Loops :
         /\ SF_vars(Lock(w))
         /\ WF_vars(Add(w))
         /\ WF_vars(Remove(w))
         /\ WF_vars(WorkerSelect(w))
         /\ WF_vars(NextTryLock(w))
         /\ WF_vars(NextSelect(w))
         /\ WF_vars(HandleTasker(w))
         /\ WF_vars(Handle(w))
         /\ WF_vars(DeferUnlock(w))

SpecSequence == InitSequence /\ [][NextSequence]_vars /\ FairSequence

----------------------------------------------------------------------------
(* next on every pool: the scheduler just after Start, whose worker loops  *)
(* select and stop at the call of handleTasker.  The pool is any sequence  *)
(* of at most MaxPool tasks or a longer one without duplicates, and every  *)
(* weight is drawn from 0..MaxWeight (Weights takes any uint64); A and B   *)
(* are sequential, so a selection locks them for the selections that       *)
(* follow, and C is concurrent.                                            *)

InitNext ==
    /\ ctx = "live"
    /\ wg = Workers
    /\ mutex = Free
    /\ procs = [p \in Procs |->
          IF Kind(p) = "caller" THEN Idle
          ELSE IF p \in Lowest(Loops, Workers) THEN [Off EXCEPT !.pc = "loop"]
          ELSE Off]
    /\ calls = <<>>
    /\ crashed = FALSE
    /\ tasks \in {s \in SeqsUpTo(Tasks, MaxLen) :
                     Len(s) <= MaxPool \/ \A t \in Tasks : Count(s, t) <= 1}
    /\ locked = [t \in Tasks |-> FALSE]
    /\ weight \in [Tasks -> 0..MaxWeight]
    /\ duration = [t \in Tasks |-> DurationUnlimited]
    /\ concurrent = [t \in Tasks |-> t = "C"]
    /\ handler = [t \in Tasks |-> [acts |-> {Continue}, logs |-> FALSE]]

NextNext ==
    \/ \E w \in Loops : WorkerSelect(w)
    \/ \E w \in Loops : NextTryLock(w)
    \/ \E w \in Loops : NextSelect(w)

SpecNext == InitNext /\ [][NextNext]_vars

----------------------------------------------------------------------------
(* Retry in a running scheduler: A is sequential, C is concurrent, both    *)
(* have unlimited duration and a handler that returns Continue or Retry.   *)
(* The caller only starts the scheduler: nothing but Retry removes a task  *)
(* and nothing but Retry's goroutine adds one.                             *)

InitRetry ==
    /\ NewScheduler
    /\ tasks = <<"A", "C">>
    /\ NewTask([t \in Tasks |-> 1],
               [t \in Tasks |-> DurationUnlimited],
               [t \in Tasks |-> t = "C"],
               [t \in Tasks |-> [acts |-> {Continue, Retry(t)}, logs |-> FALSE]])

NextRetry ==
    \/ StartIsRunning(Main)
    \/ StartLock(Main)
    \/ StartSpawn(Main)
    \/ \E p \in Loops \cup Sleepers : Lock(p)
    \/ \E p \in Sleepers : Add(p)
    \/ \E w \in Loops : RetryAction(w)
    \/ \E w \in Loops : WorkerSelect(w)
    \/ \E w \in Loops : NextTryLock(w)
    \/ \E w \in Loops : NextSelect(w)
    \/ \E w \in Loops : HandleTasker(w)
    \/ \E w \in Loops : Handle(w)
    \/ \E w \in Loops : DeferUnlock(w)

SpecRetry == InitRetry /\ [][NextRetry]_vars

----------------------------------------------------------------------------
(* Composed Actions: the handler of A returns one composition, a           *)
(* combinator chained onto the receiver Continue() (nil) or Done(); the    *)
(* tasks are sequential with unlimited duration, B's and C's handlers      *)
(* return Continue(), and only A is in the pool when Start is called.      *)

Receivers == {Continue, Done("A")}

Compositions ==
    {Composition("Then", a, ThenAdd(Continue, <<"B">>)) : a \in Receivers}
    \cup {Composition("ThenAdd", a, <<"B">>) : a \in Receivers}
    \cup {Composition("Add", a, <<"B">>) : a \in Receivers}
    \cup {Composition("Remove", a, <<>>) : a \in Receivers}
    \cup {Composition("Continue", a, <<>>) : a \in Receivers}

InitAction ==
    /\ NewScheduler
    /\ tasks = <<"A">>
    /\ \E c \in Compositions :
         NewTask([t \in Tasks |-> 1],
                 [t \in Tasks |-> DurationUnlimited],
                 [t \in Tasks |-> FALSE],
                 [t \in Tasks |->
                     IF t = "A"
                     THEN [acts |-> {Compose(c, t)}, logs |-> FALSE, made |-> c]
                     ELSE [acts |-> {Continue}, logs |-> FALSE,
                           made |-> Composition("Continue", Continue, <<>>)]])

NextAction ==
    \/ StartIsRunning(Main)
    \/ StartLock(Main)
    \/ StartSpawn(Main)
    \/ \E w \in Loops : Lock(w)
    \/ \E w \in Loops : Add(w)
    \/ \E w \in Loops : Remove(w)
    \/ \E w \in Loops : WorkerSelect(w)
    \/ \E w \in Loops : NextTryLock(w)
    \/ \E w \in Loops : NextSelect(w)
    \/ \E w \in Loops : HandleTasker(w)
    \/ \E w \in Loops : Handle(w)
    \/ \E w \in Loops : DeferUnlock(w)

SpecAction == InitAction /\ [][NextAction]_vars

----------------------------------------------------------------------------
(* Snapshot beside the other calls: one caller adds, removes, starts and   *)
(* stops, a second caller takes snapshots and keeps the last one.  A and B *)
(* are sequential with unlimited duration and their handlers return        *)
(* Continue(), so the workers lock and unlock them while snapshots are     *)
(* taken.                                                                  *)

Observer == <<"caller", 2>>

InitSnapshot ==
    /\ NewScheduler
    /\ tasks = <<>>
    /\ NewTask([t \in Tasks |-> 1],
               [t \in Tasks |-> DurationUnlimited],
               [t \in Tasks |-> FALSE],
               [t \in Tasks |-> [acts |-> {Continue}, logs |-> FALSE]])

NextSnapshot ==
    \/ \E args \in ArgLists : CallAdd(Main, args)
    \/ \E args \in ArgLists : CallRemove(Main, args)
    \/ Add(Main)
    \/ Remove(Main)
    \/ StartIsRunning(Main)
    \/ StartLock(Main)
    \/ StartSpawn(Main)
    \/ StopIsRunning(Main)
    \/ StopCancel(Main)
    \/ StopWait(Main)
    \/ SnapshotLock(Observer)
    \/ Snapshot(Observer)
    \/ \E w \in Loops : WorkerSelect(w)
    \/ \E w \in Loops : NextTryLock(w)
    \/ \E w \in Loops : NextSelect(w)
    \/ \E w \in Loops : HandleTasker(w)
    \/ \E w \in Loops : Handle(w)
    \/ \E w \in Loops : DeferUnlock(w)

SpecSnapshot == InitSnapshot /\ [][NextSnapshot]_vars

----------------------------------------------------------------------------
(* The concurrent flag changed in flight: A is sequential and C starts     *)
(* concurrent, both with unlimited duration and handlers that return       *)
(* Continue(); the caller starts the scheduler and calls C.Concurrent(v)   *)
(* whenever it likes.                                                      *)

InitConcurrent ==
    /\ NewScheduler
    /\ tasks = <<"A", "C">>
    /\ NewTask([t \in Tasks |-> 1],
               [t \in Tasks |-> DurationUnlimited],
               [t \in Tasks |-> t = "C"],
               [t \in Tasks |-> [acts |-> {Continue}, logs |-> FALSE]])

NextConcurrent ==
    \/ StartIsRunning(Main)
    \/ StartLock(Main)
    \/ StartSpawn(Main)
    \/ \E value \in BOOLEAN : Concurrent(Main, "C", value)
    \/ \E w \in Loops : WorkerSelect(w)
    \/ \E w \in Loops : NextTryLock(w)
    \/ \E w \in Loops : NextSelect(w)
    \/ \E w \in Loops : HandleTasker(w)
    \/ \E w \in Loops : Handle(w)
    \/ \E w \in Loops : DeferUnlock(w)

SpecConcurrent == InitConcurrent /\ [][NextConcurrent]_vars

----------------------------------------------------------------------------
(* Done in a running scheduler: A and B are sequential with unlimited      *)
(* duration, A's handler returns Done() and B's Continue().  The pool is   *)
(* whatever the calls of Add before Start have built (Add appends every    *)
(* argument, so any sequence that holds A); the caller only starts the     *)
(* scheduler.                                                              *)

InitDone ==
    /\ NewScheduler
    /\ tasks \in {s \in SeqsUpTo(MainTasks, MaxLen) : "A" \in Range(s)}
    /\ NewTask([t \in Tasks |-> 1],
               [t \in Tasks |-> DurationUnlimited],
               [t \in Tasks |-> FALSE],
               [t \in Tasks |-> [acts |-> IF t = "A" THEN {Done(t)} ELSE {Continue},
                                  logs |-> t = "A"]])

NextDone ==
    \/ StartIsRunning(Main)
    \/ StartLock(Main)
    \/ StartSpawn(Main)
    \/ \E w \in Loops : Lock(w)
    \/ \E w \in Loops : Remove(w)
    \/ \E w \in Loops : WorkerSelect(w)
    \/ \E w \in Loops : NextTryLock(w)
    \/ \E w \in Loops : NextSelect(w)
    \/ \E w \in Loops : HandleTasker(w)
    \/ \E w \in Loops : Handle(w)
    \/ \E w \in Loops : DeferUnlock(w)

SpecDone == InitDone /\ [][NextDone]_vars

----------------------------------------------------------------------------
(* Selection beside every holder of the pool lock: one caller adds,        *)
(* removes, starts and stops, a second caller calls Has and Snapshot, and  *)
(* the workers select.  A and B are sequential with unlimited duration and *)
(* their handlers return Continue().                                       *)

NextContend ==
    \/ \E args \in ArgLists : CallAdd(Main, args)
    \/ \E args \in ArgLists : CallRemove(Main, args)
    \/ Add(Main)
    \/ Remove(Main)
    \/ StartIsRunning(Main)
    \/ StartLock(Main)
    \/ StartSpawn(Main)
    \/ StopIsRunning(Main)
    \/ StopCancel(Main)
    \/ StopWait(Main)
    \/ \E t \in MainTasks : HasLock(Observer, t)
    \/ Has(Observer)
    \/ SnapshotLock(Observer)
    \/ Snapshot(Observer)
    \/ \E w \in Loops : WorkerSelect(w)
    \/ \E w \in Loops : NextTryLock(w)
    \/ \E w \in Loops : NextSelect(w)
    \/ \E w \in Loops : HandleTasker(w)
    \/ \E w \in Loops : Handle(w)
    \/ \E w \in Loops : DeferUnlock(w)

SpecContend == InitSnapshot /\ [][NextContend]_vars

----------------------------------------------------------------------------
(* Start and Stop called by several callers at once: every caller may call *)
(* Start or Stop whenever it is between two calls.  The pool holds the     *)
(* sequential, unlimited-duration task A, whose handler returns            *)
(* Continue(), so no worker ever waits for the pool lock.                  *)

InitCallers ==
    /\ NewScheduler
    /\ tasks = <<"A">>
    /\ NewTask([t \in Tasks |-> 1],
               [t \in Tasks |-> DurationUnlimited],
               [t \in Tasks |-> FALSE],
               [t \in Tasks |-> [acts |-> {Continue}, logs |-> FALSE]])

NextCallers ==
    \/ \E c \in Callers : StartIsRunning(c)
    \/ \E c \in Callers : StartLock(c)
    \/ \E c \in Callers : StartSpawn(c)
    \/ \E c \in Callers : StopIsRunning(c)
    \/ \E c \in Callers : StopCancel(c)
    \/ \E c \in Callers : StopWait(c)
    \/ \E w \in Loops : WorkerSelect(w)
    \/ \E w \in Loops : NextTryLock(w)
    \/ \E w \in Loops : NextSelect(w)
    \/ \E w \in Loops : HandleTasker(w)
    \/ \E w \in Loops : Handle(w)
    \/ \E w \in Loops : DeferUnlock(w)

SpecCallers == InitCallers /\ [][NextCallers]_vars

----------------------------------------------------------------------------
(* String beside a scheduler at work: one caller adds tasks and starts the *)
(* scheduler, a second caller calls String().  A and B are sequential with *)
(* unlimited duration and their handlers return Continue().  Fairness as   *)
(* for SpecStop.                                                           *)

NextString ==
    \/ \E args \in ArgLists : CallAdd(Main, args)
    \/ Add(Main)
    \/ StartIsRunning(Main)
    \/ StartLock(Main)
    \/ StartSpawn(Main)
    \/ StringLock(Observer)
    \/ \E w \in Loops : WorkerSelect(w)
    \/ \E w \in Loops : NextTryLock(w)
    \/ \E w \in Loops : NextSelect(w)
    \/ \E w \in Loops : HandleTasker(w)
    \/ \E w \in Loops : Handle(w)
    \/ \E w \in Loops : DeferUnlock(w)

FairString ==
    /\ SF_vars(StringLock(Observer))
    /\ WF_vars(Add(Main))
    /\ SF_vars(StartLock(Main))
    /\ WF_vars(StartSpawn(Main))
    /\ \A w \in Loops :
         /\ WF_vars(WorkerSelect(w))
         /\ WF_vars(NextTryLock(w))
         /\ WF_vars(NextSelect(w))
         /\ WF_vars(HandleTasker(w))
         /\ WF_vars(Handle(w))
         /\ WF_vars(DeferUnlock(w))

SpecString == InitSnapshot /\ [][NextString]_vars /\ FairString

----------------------------------------------------------------------------
(* Claims *)

\* the step in which goroutine p runs the body of Remove and returns from it
RemoveReturns(p) == procs[p].pc = "Remove" /\ procs'[p].pc # "Remove"

\* the members of s that are not in S, in order
Without(s, S) == LET Keep(x) == x \notin S IN SelectSeq(s, Keep)

\* C1: in every reachable state the pool holds each task reference at most
\* once (Add appends only the tasks not already present), whatever Add,
\* Remove and handler-returned actions have run.
PoolHasNoDuplicates == \A t \in Tasks : Count(tasks, t) <= 1

\* C2: when Remove(t1, ..., tn) returns, none of t1..tn is a member of the
\* pool, and the call does not fail, for every pool and argument list.
RemoveDeletesItsArguments ==
    [][\A p \in Procs : RemoveReturns(p) =>
          /\ ~crashed'
          /\ Range(procs[p].args) \cap Range(tasks') = {}]_vars

\* C3: Remove changes the pool only by deleting the named tasks: the members
\* that are not arguments stay, as many times as before and in the same order.
RemoveKeepsTheOthers ==
    [][\A p \in Procs : RemoveReturns(p) =>
          Without(tasks', Range(procs[p].args)) = Without(tasks, Range(procs[p].args))]_vars

\* the worker loops inside handleTasker for task t
InStep(t) == {w \in Loops : procs[w].task = t}

\* the goroutines inside task.Handle for task t
Invocations(t) == {p \in Loops \cup Handlers : procs[p].task = t /\ procs[p].pc = "handle"}

\* the goroutines inside scheduler.handle for task t: the handler or its Action
Handling(t) ==
    {p \in Loops \cup Handlers :
        procs[p].task = t /\ procs[p].pc \in {"handle", "action", "Add", "Remove", "Retry"}}

\* C4 as claimed: a sequential task has at most one in-flight handler
\* invocation at any time, also when it is duration-bound and its handler is
\* still running when the duration window ends.
SequentialRunsOneHandler ==
    \A t \in Tasks : ~concurrent[t] => Cardinality(Invocations(t)) <= 1

\* C4 as amended: a sequential task has at most one worker inside its
\* execution step at any time, and when its duration is unlimited at most one
\* goroutine inside its handler or the Action the handler returned.
SequentialRunsOnOneWorker ==
    \A t \in Tasks : ~concurrent[t] =>
        /\ Cardinality(InStep(t)) <= 1
        /\ duration[t] = DurationUnlimited => Cardinality(Handling(t)) <= 1

\* C4 witness: the handler of the unlimited task A runs on one worker while
\* another worker holds the pool lock to select, A being in the pool, and a
\* handler of the duration-bound task B outlives its window.
SequentialWitness ==
    /\ \E w1, w2 \in Loops :
         /\ procs[w1].pc = "handle" /\ procs[w1].task = "A"
         /\ procs[w2].pc = "select"
    /\ "A" \in Range(tasks)
    /\ \E h \in Handlers : procs[h].pc = "handle" /\ procs[h].task = "B"
    /\ InStep("B") = {}

\* C5: if every unlimited-duration handler invocation returns, every call of
\* Stop on a running scheduler returns, with every worker loop gone and the
\* scheduler not running, whatever Action the invocations return.
StopReturns ==
    (procs[Main].pc \in {"Stop.Lock", "Stop.Wait"})
        ~> (procs[Main].pc = "idle" /\ ctx = "nil" /\ wg = 0)

IsPrefix(s, t) == Len(s) <= Len(t) /\ s = SubSeq(t, 1, Len(s))

\* TestSequence has seen all three calls and no worker is inside a step
SequenceOver == calls = <<"A", "B", "C">> /\ \A w \in Loops : procs[w].task = None

\* C6: with the TestSequence handlers and only A in the pool at Start, the
\* handlers are invoked in the order A, B, C, each once (the log is always a
\* prefix of A, B, C); once the three have run the pool holds none of them;
\* and every run reaches that point unless Stop is called before.
SequenceRunsInOrder ==
    /\ [](IsPrefix(calls, <<"A", "B", "C">>))
    /\ [](SequenceOver => tasks = <<>>)
    /\ <>(SequenceOver \/ procs[Main].pc \in {"Stop.Lock", "Stop.Wait"})

\* C6 witness: the three handlers have run, in a running scheduler whose
\* workers are back in their loops, and the pool is empty.
SequenceWitness ==
    /\ SequenceOver
    /\ ctx = "live"
    /\ wg = Workers
    /\ tasks = <<>>

\* the step in which caller c leaves position pc
Leaves(c, pc) == procs[c].pc = pc /\ procs'[c].pc # pc

\* the step in which caller c calls op (Start or Stop)
Calls(c, op) ==
    /\ procs[c].pc \in IdlePcs
    /\ procs'[c].pc \in {op \o ".noop", op \o ".Lock"}
    /\ procs'[c].pc # procs[c].pc

\* nothing but caller c's own position changes
OnlyReturns(c) ==
    /\ UNCHANGED <<tasks, ctx, wg, mutex, locked, crashed>>
    /\ \A q \in Procs \ {c} : procs'[q] = procs[q]

\* C7 as claimed: once the scheduler is stopped with an empty pool it stays
\* not running and empty for as long as no caller runs Add or Start.
StoppedStaysEmpty ==
    [][(/\ ctx = "nil"
        /\ tasks = <<>>
        /\ \A c \in Callers : procs[c].pc \notin {"Add", "Start.spawn"})
       => (ctx' = "nil" /\ tasks' = <<>>)]_vars

\* C7 as amended: when Stop returns, IsRunning() is false, the pool is empty
\* and no worker loop is left; IsRunning() stays false until a caller's Start.
StopLeavesStopped ==
    [][/\ \A c \in Callers :
            Leaves(c, "Stop.Wait") => (ctx' = "nil" /\ tasks' = <<>> /\ wg' = 0)
       /\ (ctx = "nil" /\ \A c \in Callers : procs[c].pc # "Start.spawn")
            => ctx' = "nil"]_vars

\* C7 witness: Stop has returned (a Retry goroutine is left over from the
\* run), the scheduler is not running, the pool is empty, the caller is idle.
StoppedWitness ==
    /\ ctx = "nil"
    /\ tasks = <<>>
    /\ procs[Main].pc = "idle"
    /\ \E r \in Sleepers : procs[r].pc = "action"

\* C8: Start on a running scheduler returns without changing anything (no
\* worker loop is ever spawned on a running scheduler), and Stop on a
\* scheduler that is not running returns without changing anything.
StartStopIdempotent ==
    [][/\ \A c \in Callers :
            /\ (Calls(c, "Start") /\ IsRunning)
                 => (procs'[c].pc = "Start.noop" /\ OnlyReturns(c))
            /\ (Calls(c, "Stop") /\ ~IsRunning)
                 => (procs'[c].pc = "Stop.noop" /\ OnlyReturns(c))
       /\ wg' > wg => ctx = "nil"]_vars

\* C8 witness: Start has returned early on a scheduler running its workers
\* on a pool that is not empty.
IdempotentWitness ==
    /\ procs[Main].pc = "Start.noop"
    /\ ctx = "live"
    /\ wg = Workers
    /\ tasks # <<>>

\* C9: Start with an empty pool leaves the scheduler running with no worker
\* loop and without failing; the number of worker loops stays zero until
\* Stop, and the Stop that follows can return at once, leaving the scheduler
\* not running.
EmptyStartRunsNoWorker ==
    /\ [][/\ \A c \in Callers :
               /\ (Leaves(c, "Start.spawn") /\ tasks = <<>>)
                    => (ctx' = "live" /\ wg' = 0 /\ ~crashed')
               /\ (Leaves(c, "Stop.Wait") /\ wg = 0) => ctx' = "nil"
          /\ (ctx # "nil" /\ wg = 0)
               => (wg' = 0 /\ \A w \in Loops : procs'[w].pc = "off")]_vars
    /\ [](\A c \in Callers : (procs[c].pc = "Stop.Wait" /\ wg = 0) => ENABLED StopWait(c))

\* C9 witness: the scheduler was started with an empty pool, tasks were added
\* since, and it is still running without any worker loop.
EmptyStartWitness ==
    /\ ctx = "live"
    /\ wg = 0
    /\ tasks # <<>>
    /\ procs[Main].pc = "idle"

\* cumulative weight w1 + ... + wi of the first i tasks of u
Cumulative(u, i) == TasksWeight(SubSeq(u, 1, i), weight)

\* the step in which worker w runs next's selection and returns
Selects(w) == procs[w].pc = "select" /\ procs'[w].pc # "select"

\* C10: with unlocked tasks u1..un of total weight W > 0, next draws a pick
\* in [0, W) and returns the first ui whose cumulative weight exceeds it, so
\* exactly wi picks select ui and a task of weight 0 is never selected.
SelectionIsWeighted ==
    [][\A w \in Loops : Selects(w) =>
          LET u == Unlocked(tasks, locked)
              W == TasksWeight(u, weight)
          IN  W > 0 =>
                /\ procs'[w].pc = "handleTasker"
                /\ procs'[w].pick \in 0..(W - 1)
                /\ \E i \in 1..Len(u) :
                     /\ procs'[w].task = u[i]
                     /\ Cumulative(u, i) > procs'[w].pick
                     /\ \A k \in 1..(i - 1) : Cumulative(u, k) <= procs'[w].pick
                /\ weight[procs'[w].task] > 0
                /\ \A i \in 1..Len(u) :
                     Cardinality({p \in 0..(W - 1) : NextIndex(u, weight, p) = i}) = weight[u[i]]]_vars

\* C10 witness: next has returned the second task of the pool for a pick
\* that the first task's weight does not cover.
SelectionWitness ==
    \E w \in Loops :
        /\ procs[w].pc = "handleTasker"
        /\ Len(tasks) >= 2
        /\ tasks[1] # tasks[2]
        /\ procs[w].task = tasks[2]
        /\ weight[tasks[1]] > 0
        /\ procs[w].pick >= weight[tasks[1]]

\* worker w is blocked in <-ctx.Done() for a duration-bound task
Waiting(w) == procs[w].pc \in {"wait", "timeout"}

\* C12: for a task with duration > 0 the selecting worker leaves its wait
\* only once the deadline has elapsed or the lifetime signal is cancelled, and
\* the task's lock is released only by a worker that has left its wait; a
\* handler that returns moves no worker and releases no lock, and a handler
\* that has not returned does not keep the worker waiting past that point.
DurationBoundsTheWait ==
    /\ [][/\ \A w \in Loops :
               (Waiting(w) /\ ~Waiting(w)')
                  => /\ procs[w].pc = "timeout" \/ ctx = "cancelled"
                     /\ procs'[w].pc = "defer"
                     /\ locked' = locked
          /\ \A t \in Tasks :
               (duration[t] > DurationUnlimited /\ locked[t] /\ ~locked'[t])
                  => \E w \in Loops : procs[w].pc = "defer" /\ procs[w].task = t
          /\ \A h \in Handlers :
               (procs[h].pc = "handle" /\ procs'[h].pc # "handle")
                  => /\ locked' = locked
                     /\ \A w \in Loops : procs'[w] = procs[w]]_vars
    /\ [](\A w \in Loops :
            (/\ ~crashed
             /\ procs[w].pc = "timeout" \/ (procs[w].pc = "wait" /\ ctx = "cancelled"))
               => ENABLED WaitDone(w))

\* C12 witness: the deadline of B has passed and its worker has gone on to
\* the deferred unlock while the handler it started is still running.
DurationWitness ==
    /\ ctx = "live"
    /\ locked["B"]
    /\ \E w \in Loops : procs[w].pc = "defer" /\ procs[w].task = "B"
    /\ \E h \in Handlers : procs[h].pc = "handle" /\ procs[h].task = "B"

\* C13: applying Retry for a task removes the task from the pool at once and
\* without failing, and when Retry's goroutine has added it back the task is
\* a member of the pool exactly once.
RetryReaddsOnce ==
    [][/\ \A p \in Procs :
            (procs[p].pc = "Retry" /\ procs'[p].pc # "Retry")
               => (~crashed' /\ procs[p].args[1] \notin Range(tasks'))
       /\ \A r \in Sleepers :
            (procs[r].pc = "Add" /\ procs'[r].pc # "Add")
               => Count(tasks', procs[r].task) = 1]_vars

\* the pool mutations that the combinator of composition c adds for task t
Own(c, t) ==
    CASE c.comb = "Then"     -> c.arg
      [] c.comb = "ThenAdd"  -> <<Effect("Add", c.arg)>>
      [] c.comb = "Add"      -> <<Effect("Add", c.arg)>>
      [] c.comb = "Remove"   -> <<Effect("Remove", <<t>>)>>
      [] c.comb = "Continue" -> <<>>

\* C14: the Action a handler returns for a.Then(b), a.ThenAdd(ts), a.Add(ts)
\* or a.Remove() applies every pool mutation of the receiver a first and the
\* mutation of the chained combinator after it; a nil receiver adds nothing.
ComposedInOrder ==
    [][\A w \in Loops :
          (procs[w].pc = "handle" /\ procs'[w].pc # "handle")
             => LET t == procs[w].task
                    c == handler[t].made
                    run == IF procs'[w].pc = "defer" THEN <<>> ELSE procs'[w].todo
                IN  run = c.recv \o Own(c, t)]_vars

\* C15: Snapshot returns the pool members as they are at the call, in pool
\* order, taken under the pool lock and leaving the pool and every lock flag
\* as they were; whatever Add, Remove, Stop or worker step follows, the
\* sequence the caller holds stays the same until the caller's next call.
SnapshotIsPointInTime ==
    [][\A c \in Callers :
          /\ (procs[c].pc = "Snapshot" /\ procs'[c].pc # "Snapshot")
                => /\ mutex = c
                   /\ procs'[c].pc = "Snapshot.held"
                   /\ procs'[c].args = tasks
                   /\ tasks' = tasks
                   /\ locked' = locked
          /\ (procs[c].pc = "Snapshot.held" /\ procs'[c].pc = "Snapshot.held")
                => procs'[c].args = procs[c].args]_vars

\* C15 witness: the caller holds a snapshot of two tasks, taken while a task
\* was locked, and the pool has been emptied by Stop since.
SnapshotWitness ==
    /\ procs[Observer].pc = "Snapshot.held"
    /\ Len(procs[Observer].args) = 2
    /\ tasks = <<>>
    /\ ctx = "nil"
    /\ procs[Main].pc = "idle"

\* C16: when next returns a sequential task it has set the task's lock flag
\* while holding the pool lock, and the selecting worker is the only worker
\* inside the execution step of that task.
SelectionLocksOut ==
    [][\A w \in Loops :
          (Selects(w) /\ procs'[w].pc = "handleTasker" /\ ~concurrent[procs'[w].task])
             => /\ mutex = w
                /\ locked'[procs'[w].task]
                /\ {v \in Loops : procs'[v].task = procs'[w].task} = {w}]_vars

\* C17: a task that next locked is unlocked when the execution step of its
\* worker concludes: no task is locked with no worker inside its step.
LockedTaskHasWorker == \A t \in Tasks : locked[t] => InStep(t) # {}

\* C18: a task whose lock flag is true is sequential and inside the execution
\* step of exactly one worker; a concurrent task is never locked.
LockedMeansSequentialInStep ==
    \A t \in Tasks : locked[t] => (~concurrent[t] /\ Cardinality(InStep(t)) = 1)

\* C19: the Action of an unlimited-duration task is applied by the selecting
\* worker, without failing, before that worker releases the task's lock and
\* selects again, so a sequential unlimited-duration task whose handler
\* returns Done() is out of the pool when its lock is released.
DoneRemovesBeforeUnlock ==
    [][/\ ~crashed'
       /\ \A w \in Loops :
            (/\ procs[w].pc = "defer" /\ procs'[w].pc # "defer"
             /\ duration[procs[w].task] = DurationUnlimited)
               => /\ procs[w].todo = <<>>
                  /\ \A h \in Handlers : procs[h].task # procs[w].task
                  /\ (~concurrent[procs[w].task]
                        /\ handler[procs[w].task].acts = {Done(procs[w].task)})
                       => /\ locked[procs[w].task]
                          /\ procs[w].task \notin Range(tasks)]_vars

\* no pool member is unlocked with a positive weight
NoneEligible == \A i \in 1..Len(tasks) : locked[tasks[i]] \/ weight[tasks[i]] = 0

\* C20: the task next returns is a pool member that was unlocked when
\* selected and has a positive weight; when no unlocked member has a positive
\* weight next returns no task and changes neither the pool nor a lock flag.
NextReturnsEligible ==
    [][\A w \in Loops : Selects(w) =>
          /\ tasks' = tasks
          /\ procs'[w].pc \in {"handleTasker", "loop"}
          /\ procs'[w].pc = "handleTasker"
                => /\ procs'[w].task \in Range(tasks)
                   /\ ~locked[procs'[w].task]
                   /\ weight[procs'[w].task] > 0
                   /\ \A t \in Tasks \ {procs'[w].task} : locked'[t] = locked[t]
          /\ NoneEligible
                => /\ procs'[w].pc = "loop"
                   /\ procs'[w].task = None
                   /\ locked' = locked]_vars

\* C20 witness: next has returned the sequential task A and locked it, and
\* the members left unlocked all weigh 0, so the worker back in its loop
\* finds nothing to select.
EligibleWitness ==
    /\ Len(tasks) >= 2
    /\ NoneEligible
    /\ \E i \in 1..Len(tasks) : ~locked[tasks[i]]
    /\ mutex = Free
    /\ \E w1, w2 \in Loops :
         /\ procs[w1].pc = "handleTasker" /\ procs[w1].task = "A" /\ locked["A"]
         /\ procs[w2].pc = "loop"

\* the pool lock is held by a call of pc (a caller's or another worker's)
HeldIn(pcs) == mutex # Free /\ procs[mutex].pc \in pcs

\* C21: next never waits for the pool lock: a worker inside next can always
\* take its step, and when the lock is held (by Add, Remove, Has, Snapshot,
\* Start, Stop or another worker's selection) the step returns no task, sets
\* no lock flag, leaves the pool and the lock alone and puts the worker back
\* at the signal check of its loop.
SelectionNeverWaits ==
    /\ [][\A w \in Loops :
              (procs[w].pc = "next" /\ procs'[w].pc # "next" /\ mutex # Free)
                 => /\ procs'[w].pc = "loop"
                    /\ procs'[w].task = None
                    /\ tasks' = tasks
                    /\ locked' = locked
                    /\ mutex' = mutex]_vars
    /\ [](\A w \in Loops : (~crashed /\ procs[w].pc = "next") => ENABLED NextTryLock(w))

\* C21 witness: one worker is inside next while Has holds the pool lock, in a
\* running scheduler whose pool is not empty.
NeverWaitsWitness ==
    /\ ctx = "live"
    /\ tasks # <<>>
    /\ HeldIn({"Has"})
    /\ \E w \in Loops : procs[w].pc = "next"

\* the worker loops alive
LiveLoops == {w \in Loops : procs[w].pc # "off"}

\* C22: a scheduler never has more than `workers` live worker loops, and a
\* Start that spawns does so on a scheduler that is not running, whatever
\* the interleaving of the callers' Start calls.
AtMostWorkersLoops ==
    /\ [](Cardinality(LiveLoops) <= Workers /\ wg <= Workers)
    /\ [][\A c \in Callers : Leaves(c, "Start.spawn") => ctx = "nil"]_vars

\* C23: Stop called by two callers at once is safe: no call of Stop fails,
\* the cancel function is never invoked after it has been cleared.
ConcurrentStopIsSafe ==
    [][\A c \in Callers : Leaves(c, "Stop.Lock") => (ctx # "nil" /\ ~crashed')]_vars

\* C24: from Stop's cancellation of the lifetime signal on, Stop holds the
\* pool lock and no worker is inside a selection; a worker's next returns no
\* task and locks nothing, no worker enters an execution step, and a worker
\* at its signal check exits; once Stop has cleared the pool no worker loop
\* is left.
StopShutsOutSelection ==
    /\ [](ctx = "cancelled"
            => /\ \E c \in Callers : mutex = c /\ procs[c].pc = "Stop.Wait"
               /\ \A w \in Loops : procs[w].pc # "select")
    /\ [](ctx = "nil" => LiveLoops = {})
    /\ [][ctx = "cancelled" =>
            \A w \in Loops :
               /\ (procs[w].pc = "next" /\ procs'[w].pc # "next")
                     => (procs'[w].pc = "loop" /\ locked' = locked)
               /\ (procs[w].pc = "loop" /\ procs'[w].pc # "loop")
                     => (procs'[w].pc = "off" /\ wg' = wg - 1)
               /\ procs'[w].pc = "handleTasker" => procs[w].pc = "handleTasker"]_vars

\* C24 witness: the signal is cancelled and Stop waits, one worker is inside
\* next (the pool holds the unlocked task B) and another still runs the
\* handler of A.
ShutOutWitness ==
    /\ ctx = "cancelled"
    /\ "B" \in Range(tasks) /\ ~locked["B"]
    /\ \E w1, w2 \in Loops :
         /\ procs[w1].pc = "next"
         /\ procs[w2].pc = "handle" /\ procs[w2].task = "A"

\* C25: String() terminates: a call that has taken the pool lock at its head
\* returns, and the pool lock is not left held by the caller.
StringTerminates ==
    (procs[Observer].pc = "String.IsRunning")
        ~> (procs[Observer].pc = "idle" /\ mutex # Observer)

====
